---- MODULE Spec2Model ----
(***************************************************************************)
(* Model of the live transcription pipeline: the MicWorker control loop    *)
(* (app/gui/main_window.py), the recognition wrapper ASREngine.transcribe  *)
(* (app/asr/transcribe.py), translate_to_de (app/asr/translate.py) and the *)
(* rotating transcript sink AutoSaver (app/io/autosave.py), with the files *)
(* it creates, and the Start, Pause and Stop handlers of MainWindow.       *)
(*                                                                         *)
(* Two threads take part: the control (UI) thread, which calls start_run,  *)
(* pause, resume, stop_run and flips the two check boxes, and the worker   *)
(* thread, which executes MicWorker.run.  Each blocking call of the worker *)
(* (record_block, transcribe, translate_to_de, AutoSaver.write) is one     *)
(* step taken when the call returns or raises; the control thread may act  *)
(* between any two worker steps.                                           *)
(*                                                                         *)
(* Confidences are in hundredths (0.60 is 60), the wall clock in seconds.  *)
(* The locals text, lang, prob and line of run() are dead once an          *)
(* iteration is over: the model clears them at the next loop test.  The    *)
(* "Paused." and "Resumed." texts that pause() and resume() emit from the  *)
(* control thread are not kept.  The clock starts at 23:45:00 of a day, so *)
(* that a session can pass midnight.                                       *)
(***************************************************************************)
EXTENDS Integers, Sequences, FiniteSets, TLC

VARIABLES
    now,          \* time.time(), in seconds
    running,      \* MicWorker._running
    paused,       \* MicWorker._paused
    asrLoaded,    \* MicWorker.asr is not None
    threadActive, \* QThread.isRunning() of the worker
    pc,           \* position of the worker thread inside run()
    text,         \* local `text` of run()
    lang,         \* local `lang` of run()
    prob,         \* local `prob` of run()
    tr,           \* translation appended to the local `line` ("" when none)
    ncalls,       \* transcribe calls issued for the block of this iteration
    trFailed,     \* translate_to_de raised in this iteration
    translateOn,  \* chk_translate.isChecked(), read through translate_flag()
    forceDeOn,    \* chk_force_de.isChecked(), read through force_de_flag()
    saver,        \* MicWorker.saver: the AutoSaver and the files it holds
    emitted,      \* lines sent through the line_ready signal, in order
    status,       \* last text run() sent through the status_text signal
    runs,         \* number of times run() has been entered
    stops,        \* number of times run() has emitted "Stopped."
    fault,        \* exception that ended the current run of run(), or "none"
    runBase,      \* numbers of lines emitted and written when run() was entered
    sinkCall,     \* last AutoSaver method called and the exception it raised
    asrCall,      \* last direct call of ASREngine.transcribe: the backend's
                  \* answer, the forced_lang argument and the returned tuple
    win,          \* MainWindow: self.worker is set, the buttons' states
    orphans       \* worker threads still running that MainWindow has dropped

vars == << now, running, paused, asrLoaded, threadActive, pc, text, lang, prob,
           tr, ncalls, trFailed, translateOn, forceDeOn, saver, emitted,
           status, runs, stops, fault, runBase, sinkCall, asrCall, win,
           orphans >>

extVars == << asrCall, win, orphans >>

ctlVars == << running, paused, asrLoaded, threadActive, pc, translateOn,
              forceDeOn, status, runs, stops, runBase >>

cycleVars == << text, lang, prob, tr, ncalls, trFailed, emitted >>

----------------------------------------------------------------------------
(* Bounds of the model *)

\* lines the recognition backend yields before it only hears silence
MaxLines == 1
\* times the worker thread is started
MaxRuns == 2
\* seconds the clock advances in one Tick
TickSec == 450
\* last clock value explored
MaxNow == 1350
\* highest rotation index a direct rotate() call may start from
MaxIdx == 2
\* files under the root beyond which no further sink is constructed
MaxFiles == 2

(* Program constants *)

\* AutoSaver(save_root, interval_minutes=15)
IntervalMinutes == 15
\* prob < 0.60, in hundredths
Threshold == 60

\* lang not in ("de", "en", "pl", "sk")
AllowedLangs == {"de", "en", "pl", "sk"}
\* lang in ("pl", "sk")
TranslateLangs == {"pl", "sk"}

\* Python's None as a forced_lang
None == "None"
\* a local of run() that is not bound yet
Unbound == "<unbound>"
\* Python's None as AutoSaver._fh
NoHandle == 0

(* What the backends can answer *)

\* "".join(s.text for s in segments), before strip()
RawTexts == {"", " ", " hi "}
\* info.language
DetectLangs == {"de", "pl", "fr"}
\* info.language_probability, in hundredths
DetectProbs == {59, 60}
\* tok.batch_decode(...)[0]
Translations == {"", "hallo"}

----------------------------------------------------------------------------
(* app/asr/transcribe.py *)

\* str.strip() on the texts of RawTexts
Strip(s) ==
    CASE s = " "    -> ""
      [] s = " hi " -> "hi"
      [] OTHER      -> s

\* str.lower() on language tags
Lower(s) ==
    CASE s = "DE" -> "de"
      [] s = "PL" -> "pl"
      [] s = "FR" -> "fr"
      [] OTHER    -> s

\* str.upper() on language tags
Upper(s) ==
    CASE s = "de" -> "DE"
      [] s = "pl" -> "PL"
      [] s = "fr" -> "FR"
      [] OTHER    -> s

\* The answers of WhisperModel.transcribe: the joined segment text and the
\* detection info.  Once MaxLines lines are out, the backend hears silence.
BackendAnswers ==
    { [text |-> t, language |-> l, probability |-> p] :
        t \in (IF Len(emitted) < MaxLines THEN RawTexts ELSE {"", " "}),
        l \in DetectLangs, p \in DetectProbs }

\* info.language_probability is None
NoProb == -1

\* ASREngine.transcribe(audio, 16000, forced_lang=forced_lang) for the backend
\* answer b; forced_lang is None or a language tag.
transcribe(b, forced_lang) ==
    [ text |-> Strip(b.text),
      lang |-> Lower(IF forced_lang # None THEN forced_lang
                     ELSE IF b.language # None THEN b.language ELSE ""),
      prob |-> IF forced_lang # None THEN 0
               ELSE IF b.probability = NoProb THEN 0 ELSE b.probability ]

\* The keyword forced_lang is left out of a call
Omitted == "<omitted>"

\* forced_lang: str | None = "de"
DefaultForcedLang == "de"

\* ASREngine.transcribe(audio, 16000) with the keyword forced_lang given as
\* f, or left out
transcribe_call(b, f) ==
    transcribe(b, IF f = Omitted THEN DefaultForcedLang ELSE f)

----------------------------------------------------------------------------
(* app/io/autosave.py.  A sink is the record                               *)
(*   interval, idx, t0 : the fields of the same names                      *)
(*   session_dir       : the calendar day the directory is named by        *)
(*   fh                : NoHandle, or the handle _fh refers to             *)
(*   path              : the path the handle of fh was opened for          *)
(*   opened            : the handles this sink has opened and not closed   *)
(*   out               : what this sink has got into its files, in order:  *)
(*                       each file's header, then the lines written and    *)
(*                       flushed to it                                     *)
(*   pending           : lines write() put in the handle's buffer whose    *)
(*                       flush() failed; a later flush sends them out      *)
(*   files             : the files under root/calls and what each holds;   *)
(*                       they outlive the sink                             *)
(* A handle is named by the index of the file it was opened for.  Each     *)
(* method yields the sink after the call and the exception it raised.  The *)
(* file system's part in a call is the record io:                          *)
(*   io.write : write() and flush() of the line succeed                    *)
(*   io.open  : "ok", "open_fails" (open() raises) or "header_fails" (the  *)
(*              file is open, the header's write() or flush() raises)      *)
(*   io.flush : the flush that close() does of a non-empty buffer succeeds *)

Ret(s, e) == [s |-> s, exc |-> e]

IOs == [write : BOOLEAN, open : {"ok", "open_fails", "header_fails"},
        flush : BOOLEAN]

\* io of a file system on which nothing fails
IoOk == [write |-> TRUE, open |-> "ok", flush |-> TRUE]

\* f"# Session started {datetime.now().isoformat()}\n"
Header == [lang |-> "#", text |-> "# Session started", de |-> ""]

\* The transcript lines among what reached the files
Lines(out) == SelectSeq(out, LAMBDA l : l # Header)

\* Seconds of a calendar day
DaySec == 24 * 60 * 60

\* Local time of day at clock value 0: 23:45:00
ClockStart == 23 * 3600 + 45 * 60

\* datetime.now().strftime("%Y-%m-%d") at clock value t, as the number of
\* midnights since clock value 0
Date(t) == (ClockStart + t) \div DaySec

\* datetime.now().strftime("%H-%M") at clock value t, as the minute of the day
HHMM(t) == ((ClockStart + t) % DaySec) \div 60

\* self.session_dir / f"talk{self.idx}-{ts}.txt"
Path(dir, idx, ts) == [dir |-> dir, idx |-> idx, ts |-> ts]

\* No file: the path of a handle that was never opened
NoPath == Path(0, 0, 0)

\* A root directory without transcript files
NoFiles == [p \in {} |-> << >>]

\* open(p, "w"): the file is created, or emptied when it exists
OpenW(files, p) ==
    [q \in (DOMAIN files) \cup {p} |-> IF q = p THEN << >> ELSE files[q]]

\* s with the lines ls written and flushed through its handle
Put(s, ls) ==
    [s EXCEPT !.out = @ \o ls, !.files[s.path] = @ \o ls]

\* self._fh.close(): a closed file ignores it; an open one flushes what is
\* buffered and is closed even when that flush raises (CPython re-raises the
\* OSError of the flush after closing the descriptor)
fh_close(s, io) ==
    IF s.fh \notin s.opened THEN Ret(s, "none")
    ELSE IF s.pending = << >>
    THEN Ret([s EXCEPT !.opened = @ \ {s.fh}], "none")
    ELSE IF io.flush
    THEN Ret([Put(s, s.pending) EXCEPT !.opened = @ \ {s.fh},
                                       !.pending = << >>], "none")
    ELSE Ret([s EXCEPT !.opened = @ \ {s.fh}, !.pending = << >>], "OSError")

\* AutoSaver._open_new at clock value t
open_new(s, t, io) ==
    IF io.open = "open_fails" THEN Ret(s, "OSError")
    ELSE LET p  == Path(s.session_dir, s.idx, HHMM(t))
             s1 == [s EXCEPT !.fh = s.idx, !.path = p,
                             !.opened = @ \cup {s.idx}, !.pending = << >>,
                             !.files = OpenW(@, p)]
         IN  IF io.open = "header_fails"
             THEN Ret([s1 EXCEPT !.pending = << Header >>], "OSError")
             ELSE Ret(Put(s1, << Header >>), "none")

\* AutoSaver.__init__ at clock value t, under a root that holds `files`, on
\* a file system that lets it open
AutoSaver(interval_minutes, t, files) ==
    open_new([interval |-> interval_minutes * 60, session_dir |-> Date(t),
              idx |-> 1, t0 |-> t, fh |-> NoHandle, path |-> NoPath,
              opened |-> {}, out |-> << >>, pending |-> << >>,
              files |-> files], t, IoOk).s

\* rotate without self._fh.close()
rotate_noclose(s, t, io) ==
    IF s.fh = NoHandle THEN Ret(s, "AttributeError")
    ELSE open_new([s EXCEPT !.idx = @ + 1, !.t0 = t], t, io)

\* AutoSaver.rotate at clock value t
rotate(s, t, io) ==
    IF s.fh = NoHandle THEN Ret(s, "AttributeError")
    ELSE LET c == fh_close(s, io)
         IN  IF c.exc # "none" THEN c
             ELSE open_new([c.s EXCEPT !.idx = @ + 1, !.t0 = t], t, io)

\* write with `>` for `>=`
write_strict(s, line, t, io) ==
    IF s.fh = NoHandle THEN Ret(s, "AttributeError")
    ELSE IF s.fh \notin s.opened THEN Ret(s, "ValueError")
    ELSE IF ~io.write
    THEN Ret([s EXCEPT !.pending = Append(@, line)], "OSError")
    ELSE LET s1 == [Put(s, s.pending \o << line >>) EXCEPT !.pending = << >>]
         IN  IF t - s1.t0 > s1.interval THEN rotate(s1, t, io)
             ELSE Ret(s1, "none")

\* write that tests the interval and rotates before it writes the line
write_rotate_first(s, line, t, io) ==
    IF s.fh = NoHandle THEN Ret(s, "AttributeError")
    ELSE IF s.fh \notin s.opened THEN Ret(s, "ValueError")
    ELSE LET r == IF t - s.t0 >= s.interval THEN rotate(s, t, io)
                  ELSE Ret(s, "none")
         IN  IF r.exc # "none" THEN r
             ELSE IF ~io.write
             THEN Ret([r.s EXCEPT !.pending = Append(@, line)], "OSError")
             ELSE Ret([Put(r.s, r.s.pending \o << line >>)
                         EXCEPT !.pending = << >>], "none")

\* AutoSaver.write at clock value t
write(s, line, t, io) ==
    IF s.fh = NoHandle THEN Ret(s, "AttributeError")
    ELSE IF s.fh \notin s.opened THEN Ret(s, "ValueError")
    ELSE IF ~io.write
    THEN Ret([s EXCEPT !.pending = Append(@, line)], "OSError")
    ELSE LET s1 == [Put(s, s.pending \o << line >>) EXCEPT !.pending = << >>]
         IN  IF t - s1.t0 >= s1.interval THEN rotate(s1, t, io)
             ELSE Ret(s1, "none")

\* AutoSaver.close
close(s, io) ==
    IF s.fh # NoHandle
    THEN LET c == fh_close(s, io)
         IN  IF c.exc # "none" THEN c
             ELSE Ret([c.s EXCEPT !.fh = NoHandle], "none")
    ELSE Ret(s, "none")

----------------------------------------------------------------------------
(* app/asr/translate.py *)

\* translate_to_de(text, src_lang); answer is what the Marian backend
\* decodes, or "raise" when loading or generating fails
translate_to_de(txt, src_lang, answer) ==
    IF Strip(txt) = "" THEN [val |-> "", exc |-> "none"]
    ELSE IF Lower(src_lang) \notin {"pl", "sk"} THEN [val |-> "", exc |-> "none"]
    ELSE IF answer = "raise" THEN [val |-> "", exc |-> "Exception"]
    ELSE [val |-> answer, exc |-> "none"]

----------------------------------------------------------------------------
(* The formatted line of run(): the upper-cased tag, the text and the      *)
(* "-> DE:" continuation ("" when there is none).                          *)

Line(lg, txt, t) == [lang |-> Upper(lg), text |-> txt, de |-> t]

----------------------------------------------------------------------------
(* MainWindow.__init__: self.worker is None, Start is enabled, Pause and   *)
(* Stop are not.  The timer and the labels of the window are not kept.     *)

MainWindow ==
    [worker |-> FALSE, btn_start |-> TRUE, btn_pause |-> FALSE,
     pause_text |-> "Pause", btn_stop |-> FALSE]

----------------------------------------------------------------------------
Init ==
    /\ now = 0
    /\ running = FALSE
    /\ paused = FALSE
    /\ asrLoaded = FALSE
    /\ threadActive = FALSE
    /\ pc = "idle"
    /\ text = Unbound
    /\ lang = ""
    /\ prob = 0
    /\ tr = ""
    /\ ncalls = 0
    /\ trFailed = FALSE
    /\ translateOn = TRUE
    /\ forceDeOn = TRUE
    /\ saver = AutoSaver(IntervalMinutes, now, NoFiles)
    /\ emitted = << >>
    /\ status = ""
    /\ runs = 0
    /\ stops = 0
    /\ fault = "none"
    /\ runBase = << Len(emitted), Len(Lines(saver.out)) >>
    /\ sinkCall = << "__init__", "none" >>
    /\ asrCall = << >>
    /\ win = MainWindow
    /\ orphans = 0

----------------------------------------------------------------------------
(* The control thread *)

\* MicWorker.start_run
start_run ==
    /\ running' = TRUE
    /\ paused' = FALSE
    /\ IF ~threadActive
       THEN /\ runs < MaxRuns
            /\ threadActive' = TRUE
            /\ pc' = "run"
            /\ runs' = runs + 1
       ELSE UNCHANGED << threadActive, pc, runs >>
    /\ UNCHANGED << extVars, now, asrLoaded, translateOn, forceDeOn, status, stops,
                    runBase, saver, fault, sinkCall >>
    /\ UNCHANGED cycleVars

\* MicWorker.pause
pause ==
    /\ paused' = TRUE
    /\ UNCHANGED << extVars, now, running, asrLoaded, threadActive, pc, translateOn,
                    forceDeOn, status, runs, stops, runBase, saver, fault, sinkCall >>
    /\ UNCHANGED cycleVars

\* MicWorker.resume
resume ==
    /\ paused' = FALSE
    /\ UNCHANGED << extVars, now, running, asrLoaded, threadActive, pc, translateOn,
                    forceDeOn, status, runs, stops, runBase, saver, fault, sinkCall >>
    /\ UNCHANGED cycleVars

\* stop_run that also takes the worker out of its cycle at once
stop_run_abrupt ==
    /\ running' = FALSE
    /\ pc' = IF threadActive /\ pc \in {"capture", "transcribe", "transcribe2",
                                        "translate", "emit", "write"}
             THEN "finally" ELSE pc
    /\ UNCHANGED << extVars, now, paused, asrLoaded, threadActive,
                    translateOn, forceDeOn, status, runs, stops, runBase,
                    saver, fault, sinkCall >>
    /\ UNCHANGED cycleVars

\* MicWorker.stop_run
stop_run ==
    /\ running' = FALSE
    /\ UNCHANGED << extVars, now, paused, asrLoaded, threadActive, pc, translateOn,
                    forceDeOn, status, runs, stops, runBase, saver, fault, sinkCall >>
    /\ UNCHANGED cycleVars

\* The user flips "Show PL/SK -> DE translations"
ToggleTranslate ==
    /\ translateOn' = ~translateOn
    /\ UNCHANGED << extVars, now, running, paused, asrLoaded, threadActive, pc,
                    forceDeOn, status, runs, stops, runBase, saver, fault, sinkCall >>
    /\ UNCHANGED cycleVars

\* The user flips "Force German if unsure"
ToggleForceDe ==
    /\ forceDeOn' = ~forceDeOn
    /\ UNCHANGED << extVars, now, running, paused, asrLoaded, threadActive, pc,
                    translateOn, status, runs, stops, runBase, saver, fault, sinkCall >>
    /\ UNCHANGED cycleVars

\* The wall clock advances
Tick ==
    /\ now + TickSec <= MaxNow
    /\ now' = now + TickSec
    /\ UNCHANGED << extVars, saver, fault, sinkCall >>
    /\ UNCHANGED ctlVars
    /\ UNCHANGED cycleVars

----------------------------------------------------------------------------
(* The worker thread: MicWorker.run *)

\* The worker moves on to position p
Goto(p) ==
    /\ pc' = p
    /\ UNCHANGED << fault, threadActive >>

\* An exception e leaves the try block: control passes to the finally clause
Raise(e) ==
    /\ pc' = "finally"
    /\ fault' = e
    /\ UNCHANGED threadActive

\* An exception e leaves the finally clause, and so run(): the thread ends
Abort(e) ==
    /\ pc' = "idle"
    /\ fault' = e
    /\ threadActive' = FALSE

\* The iteration is over: its locals are dead
ClearLocals ==
    /\ text' = Unbound
    /\ lang' = ""
    /\ prob' = 0
    /\ tr' = ""
    /\ ncalls' = 0
    /\ trFailed' = FALSE

\* The thread enters run(); the recognition model is loaded on first use
RunBegin ==
    /\ pc = "run"
    /\ IF asrLoaded
       THEN /\ pc' = "while"
            /\ fault' = "none"
            /\ UNCHANGED << asrLoaded, status >>
       ELSE \/ /\ asrLoaded' = TRUE
               /\ status' = "Listening"
               /\ pc' = "while"
               /\ fault' = "none"
            \/ /\ status' = "Loading ASR model"
               /\ pc' = "finally"
               /\ fault' = "LoadError"
               /\ UNCHANGED asrLoaded
    /\ runBase' = << Len(emitted), Len(Lines(saver.out)) >>
    /\ UNCHANGED << extVars, now, running, paused, threadActive, translateOn, forceDeOn,
                    runs, stops, saver, sinkCall >>
    /\ UNCHANGED cycleVars

\* while self._running
LoopCheck ==
    /\ pc = "while"
    /\ IF running THEN Goto("ifpaused") ELSE Goto("finally")
    /\ ClearLocals
    /\ UNCHANGED << extVars, now, running, paused, asrLoaded, translateOn, forceDeOn,
                    status, runs, stops, runBase, saver, sinkCall, emitted >>

\* PausedCheck with the test of self._paused left out
PausedCheckIgnored ==
    /\ pc = "ifpaused"
    /\ Goto("capture")
    /\ UNCHANGED << extVars, now, running, paused, asrLoaded, translateOn, forceDeOn,
                    status, runs, stops, runBase, saver, sinkCall >>
    /\ UNCHANGED cycleVars

\* if self._paused: sleep and continue; else go on to record_block
PausedCheck ==
    /\ pc = "ifpaused"
    /\ IF paused THEN Goto("sleep") ELSE Goto("capture")
    /\ UNCHANGED << extVars, now, running, paused, asrLoaded, translateOn, forceDeOn,
                    status, runs, stops, runBase, saver, sinkCall >>
    /\ UNCHANGED cycleVars

\* self.msleep(50) returns
Sleep ==
    /\ pc = "sleep"
    /\ Goto("while")
    /\ UNCHANGED << extVars, now, running, paused, asrLoaded, translateOn, forceDeOn,
                    status, runs, stops, runBase, saver, sinkCall >>
    /\ UNCHANGED cycleVars

\* record_block(self.mic_index, seconds=4.0) returns a block or raises
Capture ==
    /\ pc = "capture"
    /\ \/ Goto("transcribe")
       \/ Raise("PortAudioError")
    /\ UNCHANGED << extVars, now, running, paused, asrLoaded, translateOn, forceDeOn,
                    status, runs, stops, runBase, saver, sinkCall >>
    /\ UNCHANGED cycleVars

\* NeedsFallback with `prob <= 0.60`
NeedsFallbackLeq(l, p) ==
    forceDeOn /\ (l \notin AllowedLangs \/ p <= Threshold)

\* force_de_flag() and (lang not in (...) or prob < 0.60)
NeedsFallback(l, p) ==
    forceDeOn /\ (l \notin AllowedLangs \/ p < Threshold)

\* AfterAsr without `if not text: continue`
AfterAsrNoSkip(r) ==
    /\ text' = r.text
    /\ lang' = r.lang
    /\ prob' = r.prob
    /\ ncalls' = ncalls + 1
    /\ tr' = ""
    /\ UNCHANGED trFailed
    /\ IF translateOn /\ r.lang \in TranslateLangs
       THEN Goto("translate")
       ELSE Goto("emit")

\* AfterAsr with `if lang in ("pl", "sk")` for the translate_flag() test
AfterAsrNoFlag(r) ==
    /\ text' = r.text
    /\ lang' = r.lang
    /\ prob' = r.prob
    /\ ncalls' = ncalls + 1
    /\ tr' = ""
    /\ UNCHANGED trFailed
    /\ IF r.text = "" THEN Goto("while")
       ELSE IF r.lang \in TranslateLangs
            THEN Goto("translate")
            ELSE Goto("emit")

\* From `if not text: continue` to the translate_flag() test, for the final
\* result r of the iteration
AfterAsr(r) ==
    /\ text' = r.text
    /\ lang' = r.lang
    /\ prob' = r.prob
    /\ ncalls' = ncalls + 1
    /\ tr' = ""
    /\ UNCHANGED trFailed
    /\ IF r.text = "" THEN Goto("while")
       ELSE IF translateOn /\ r.lang \in TranslateLangs
            THEN Goto("translate")
            ELSE Goto("emit")

\* self.asr.transcribe(audio16, TARGET_SR, forced_lang=None) returns or raises
\* (TARGET_SR is 16000, so the sample-rate ValueError is never the cause)
Transcribe ==
    /\ pc = "transcribe"
    /\ \/ \E b \in BackendAnswers :
            LET r == transcribe(b, None)
            IN  IF NeedsFallback(r.lang, r.prob)
                THEN /\ text' = r.text
                     /\ lang' = r.lang
                     /\ prob' = r.prob
                     /\ ncalls' = ncalls + 1
                     /\ Goto("transcribe2")
                     /\ UNCHANGED << tr, trFailed >>
                ELSE AfterAsr(r)
       \/ /\ Raise("RuntimeError")
          /\ ClearLocals
    /\ UNCHANGED << extVars, now, running, paused, asrLoaded, translateOn, forceDeOn,
                    status, runs, stops, runBase, saver, sinkCall, emitted >>

\* self.asr.transcribe(audio16, TARGET_SR, forced_lang="de") returns or raises
Transcribe2 ==
    /\ pc = "transcribe2"
    /\ \/ \E b \in BackendAnswers :
            LET r == transcribe(b, "de")
            IN  AfterAsr(r)
       \/ /\ Raise("RuntimeError")
          /\ ClearLocals
    /\ UNCHANGED << extVars, now, running, paused, asrLoaded, translateOn, forceDeOn,
                    status, runs, stops, runBase, saver, sinkCall, emitted >>

\* Translate without the try/except around translate_to_de
TranslateUnguarded ==
    /\ pc = "translate"
    /\ \E a \in Translations \cup {"raise"} :
          LET r == translate_to_de(text, lang, a)
          IN  /\ tr' = r.val
              /\ trFailed' = (r.exc # "none")
              /\ IF r.exc = "none" THEN Goto("emit") ELSE Raise(r.exc)
    /\ UNCHANGED << extVars, now, running, paused, asrLoaded, translateOn, forceDeOn,
                    status, runs, stops, runBase, saver, sinkCall, text, lang,
                    prob, ncalls, emitted >>

\* try: tr = translate_to_de(text, lang) ... except Exception: pass
Translate ==
    /\ pc = "translate"
    /\ \E a \in Translations \cup {"raise"} :
          LET r == translate_to_de(text, lang, a)
          IN  /\ tr' = r.val
              /\ trFailed' = (r.exc # "none")
    /\ Goto("emit")
    /\ UNCHANGED << extVars, now, running, paused, asrLoaded, translateOn, forceDeOn,
                    status, runs, stops, runBase, saver, sinkCall, text, lang,
                    prob, ncalls, emitted >>

\* self.line_ready.emit(line)
Emit ==
    /\ pc = "emit"
    /\ emitted' = Append(emitted, Line(lang, text, tr))
    /\ Goto("write")
    /\ UNCHANGED << extVars, now, running, paused, asrLoaded, translateOn, forceDeOn,
                    status, runs, stops, runBase, saver, sinkCall, text, lang,
                    prob, tr, ncalls, trFailed >>

\* Write that hands the line to a background writer and goes on at once
WriteDeferred ==
    /\ pc = "write"
    /\ Goto("while")
    /\ ClearLocals
    /\ UNCHANGED << extVars, now, running, paused, asrLoaded, translateOn, forceDeOn,
                    status, runs, stops, runBase, saver, sinkCall, emitted >>

\* self.saver.write(line) returns or raises
Write ==
    /\ pc = "write"
    /\ \E io \in IOs :
          LET r == write(saver, Line(lang, text, tr), now, io)
          IN  /\ saver' = r.s
              /\ sinkCall' = << "write", r.exc >>
              /\ IF r.exc = "none" THEN Goto("while") ELSE Raise(r.exc)
    /\ ClearLocals
    /\ UNCHANGED << extVars, now, running, paused, asrLoaded, translateOn, forceDeOn,
                    status, runs, stops, runBase, emitted >>

\* finally: self.saver.close() returns, or raises and ends run()
FinallyClose ==
    /\ pc = "finally"
    /\ \E io \in IOs :
          LET r == close(saver, io)
          IN  /\ saver' = r.s
              /\ sinkCall' = << "close", r.exc >>
              /\ IF r.exc = "none" THEN Goto("finally_emit") ELSE Abort(r.exc)
    /\ UNCHANGED << extVars, now, running, paused, asrLoaded, translateOn, forceDeOn,
                    status, runs, stops, runBase >>
    /\ UNCHANGED cycleVars

\* self.status_text.emit("Stopped."); run() returns and the thread finishes
FinallyEmit ==
    /\ pc = "finally_emit"
    /\ status' = "Stopped."
    /\ stops' = stops + 1
    /\ pc' = "idle"
    /\ threadActive' = FALSE
    /\ UNCHANGED << extVars, now, running, paused, asrLoaded, translateOn, forceDeOn,
                    runs, runBase, saver, fault, sinkCall >>
    /\ UNCHANGED cycleVars

Worker ==
    \/ RunBegin
    \/ LoopCheck
    \/ PausedCheck
    \/ Sleep
    \/ Capture
    \/ Transcribe
    \/ Transcribe2
    \/ Translate
    \/ Emit
    \/ Write
    \/ FinallyClose
    \/ FinallyEmit

Next ==
    \/ start_run
    \/ pause
    \/ resume
    \/ stop_run
    \/ ToggleTranslate
    \/ ToggleForceDe
    \/ Tick
    \/ Worker

Spec == Init /\ [][Next]_vars

----------------------------------------------------------------------------
(* The sink on its own: an AutoSaver driven by any sequence of             *)
(* construction, write(), rotate() and close() calls.                      *)

\* The lines a caller may hand to write()
SinkLines == { Line("de", "hi", ""), Line("pl", "hi", "hallo") }

\* The number of transcript lines the files hold
LinesOnDisk(files) ==
    Cardinality({ pi \in (DOMAIN files) \X (1..(MaxLines + 1)) :
                    /\ pi[2] <= Len(files[pi[1]])
                    /\ files[pi[1]][pi[2]] # Header })

\* AutoSaver(root, interval_minutes=15) is constructed anew
SinkNew ==
    /\ Cardinality(DOMAIN saver.files) < MaxFiles
    /\ saver' = AutoSaver(IntervalMinutes, now, saver.files)
    /\ sinkCall' = << "__init__", "none" >>
    /\ UNCHANGED << extVars, now, fault >>
    /\ UNCHANGED ctlVars
    /\ UNCHANGED cycleVars

\* write(line)
SinkWrite ==
    /\ LinesOnDisk(saver.files) + Len(saver.pending) < MaxLines
    /\ \E line \in SinkLines, io \in IOs :
          LET r == write(saver, line, now, io)
          IN  /\ saver' = r.s
              /\ sinkCall' = << "write", r.exc >>
    /\ UNCHANGED << extVars, now, fault >>
    /\ UNCHANGED ctlVars
    /\ UNCHANGED cycleVars

\* rotate()
SinkRotate ==
    /\ saver.idx < MaxIdx
    /\ \E io \in IOs :
          LET r == rotate(saver, now, io)
          IN  /\ saver' = r.s
              /\ sinkCall' = << "rotate", r.exc >>
    /\ UNCHANGED << extVars, now, fault >>
    /\ UNCHANGED ctlVars
    /\ UNCHANGED cycleVars

\* close()
SinkClose ==
    /\ \E io \in IOs :
          LET r == close(saver, io)
          IN  /\ saver' = r.s
              /\ sinkCall' = << "close", r.exc >>
    /\ UNCHANGED << extVars, now, fault >>
    /\ UNCHANGED ctlVars
    /\ UNCHANGED cycleVars

SinkNext ==
    \/ SinkNew
    \/ SinkWrite
    \/ SinkRotate
    \/ SinkClose
    \/ Tick

SinkSpec == Init /\ [][SinkNext]_vars

----------------------------------------------------------------------------
(* ASREngine.transcribe on its own: direct calls with the keyword          *)
(* forced_lang given or left out, for every answer of the backend.         *)

\* info.language, upper case and None included
InfoLangs == DetectLangs \cup {"PL", None}

\* info.language_probability, None included
InfoProbs == DetectProbs \cup {NoProb}

\* What the caller passes as forced_lang
ForcedArgs == {Omitted, None, "de", "pl"}

AsrCall ==
    /\ \E t \in RawTexts, l \in InfoLangs, p \in InfoProbs, f \in ForcedArgs :
          LET b == [text |-> t, language |-> l, probability |-> p]
          IN  asrCall' = << b, f, transcribe_call(b, f) >>
    /\ UNCHANGED << now, saver, fault, sinkCall, win, orphans >>
    /\ UNCHANGED ctlVars
    /\ UNCHANGED cycleVars

AsrNext == AsrCall

AsrSpec == Init /\ [][AsrNext]_vars

----------------------------------------------------------------------------
(* MainWindow: the Start, Pause/Resume and Stop buttons drive the worker.  *)
(* A disabled button sends no click.  wait(2000) of _stop returns when the *)
(* thread has finished or when the two seconds are over; the steps the     *)
(* worker takes meanwhile are the steps it takes after _stop here.  Both   *)
(* check boxes stay checked.                                               *)

\* No AutoSaver exists yet
NoSink ==
    [interval |-> 0, session_dir |-> 0, idx |-> 0, t0 |-> 0, fh |-> NoHandle,
     path |-> NoPath, opened |-> {}, out |-> << >>, pending |-> << >>,
     files |-> NoFiles]

WindowInit ==
    /\ now = 0
    /\ running = FALSE
    /\ paused = FALSE
    /\ asrLoaded = FALSE
    /\ threadActive = FALSE
    /\ pc = "idle"
    /\ text = Unbound
    /\ lang = ""
    /\ prob = 0
    /\ tr = ""
    /\ ncalls = 0
    /\ trFailed = FALSE
    /\ translateOn = TRUE
    /\ forceDeOn = TRUE
    /\ saver = NoSink
    /\ emitted = << >>
    /\ status = ""
    /\ runs = 0
    /\ stops = 0
    /\ fault = "none"
    /\ runBase = << 0, 0 >>
    /\ sinkCall = << "none", "none" >>
    /\ asrCall = << >>
    /\ win = MainWindow
    /\ orphans = 0

\* self.worker = MicWorker(...) and self.worker.start_run(): the sink of the
\* new worker is opened under the same root; a thread of the worker that is
\* replaced goes on running without an owner
NewWorker ==
    /\ runs < MaxRuns
    /\ orphans' = IF threadActive THEN orphans + 1 ELSE orphans
    /\ saver' = AutoSaver(IntervalMinutes, now, saver.files)
    /\ sinkCall' = << "__init__", "none" >>
    /\ asrLoaded' = FALSE
    /\ running' = TRUE
    /\ paused' = FALSE
    /\ threadActive' = TRUE
    /\ pc' = "run"
    /\ runs' = runs + 1
    /\ ClearLocals
    /\ win' = [win EXCEPT !.worker = TRUE, !.btn_start = FALSE,
                          !.btn_pause = TRUE, !.pause_text = "Pause",
                          !.btn_stop = TRUE]
    /\ UNCHANGED << now, translateOn, forceDeOn, status, stops, fault,
                    runBase, emitted, asrCall >>

\* _start without `if self.worker and self.worker.isRunning(): return`
start_unguarded ==
    /\ win.btn_start
    /\ NewWorker

\* MainWindow._start
_start ==
    /\ win.btn_start
    /\ IF win.worker /\ threadActive
       THEN UNCHANGED vars
       ELSE NewWorker

\* MainWindow._pause_resume
_pause_resume ==
    /\ win.btn_pause
    /\ IF ~win.worker
       THEN UNCHANGED vars
       ELSE /\ IF win.pause_text = "Pause"
               THEN /\ paused' = TRUE
                    /\ win' = [win EXCEPT !.pause_text = "Resume"]
               ELSE /\ paused' = FALSE
                    /\ win' = [win EXCEPT !.pause_text = "Pause"]
            /\ UNCHANGED << now, running, asrLoaded, threadActive, pc,
                            translateOn, forceDeOn, status, runs, stops,
                            runBase, saver, fault, sinkCall, asrCall,
                            orphans >>
            /\ UNCHANGED cycleVars

\* MainWindow._stop
_stop ==
    /\ win.btn_stop
    /\ running' = IF win.worker /\ threadActive THEN FALSE ELSE running
    /\ win' = [win EXCEPT !.btn_start = TRUE, !.btn_pause = FALSE,
                          !.btn_stop = FALSE]
    /\ UNCHANGED << now, paused, asrLoaded, threadActive, pc, translateOn,
                    forceDeOn, status, runs, stops, runBase, saver, fault,
                    sinkCall, asrCall, orphans >>
    /\ UNCHANGED cycleVars

WindowNext ==
    \/ _start
    \/ _pause_resume
    \/ _stop
    \/ Tick
    \/ Worker

WindowSpec == WindowInit /\ [][WindowNext]_vars

----------------------------------------------------------------------------
(* Properties *)

InferencePcs == {"capture", "transcribe", "transcribe2"}

\* The worker has left position p in this step
Leaves(p) == pc = p /\ pc' # p

\* run() has returned through its finally clause: the sink is closed and
\* "Stopped." was the last status of the run
Exited ==
    /\ ~threadActive
    /\ pc = "idle"
    /\ saver.fh = NoHandle
    /\ saver.opened = {}
    /\ stops = runs
    /\ status = "Stopped."

\* Exceptions that come from the devices, the backends or the file system
EnvFaults == {"LoadError", "PortAudioError", "RuntimeError", "OSError"}

\* Lines the current run of run() has emitted, and has got into the files
EmittedThisRun == Len(emitted) - runBase[1]

WrittenThisRun == Len(Lines(saver.out)) - runBase[2]

\* This step is a write() that has put its line into the file
WroteLine ==
    /\ sinkCall'[1] = "write"
    /\ Len(Lines(saver'.out)) > Len(Lines(saver.out))

(* C1, as stated: a second, forced-"de" transcription call is issued if    *)
(* and only if the first result's language is outside {de, en, pl, sk} or  *)
(* its confidence is below 0.60, and no block gets more than two calls.    *)
C1_FallbackIffUnsure ==
    /\ [](ncalls <= 2)
    /\ [][ (Leaves("transcribe") /\ pc' # "finally")
            => ( pc' = "transcribe2"
                 <=> (lang' \notin AllowedLangs \/ prob' < Threshold) ) ]_vars

(* C1, amended: the second, forced-"de" call is issued if and only if the  *)
(* "force German" flag is on when the first call returns and the first     *)
(* result's language is outside {de, en, pl, sk} or its confidence is      *)
(* below 0.60; no block gets more than two transcription calls.            *)
C1_FallbackIffEnabledAndUnsure ==
    /\ [](ncalls <= 2)
    /\ [][ (Leaves("transcribe") /\ pc' # "finally")
            => ( pc' = "transcribe2"
                 <=> ( forceDeOn
                       /\ (lang' \notin AllowedLangs \/ prob' < Threshold) ) )
         ]_vars
    /\ [][ Leaves("transcribe2") => pc' \notin InferencePcs ]_vars

\* A block got its second, forced call: the final result is "de" at
\* confidence 0, and its line is about to be emitted
C1_Witness ==
    /\ ncalls = 2
    /\ pc = "emit"
    /\ lang = "de"
    /\ prob = 0

(* C2, as stated: while the paused flag is set, the worker is neither      *)
(* entering nor inside a capture or a transcription.                       *)
C2_NoWorkWhilePaused == paused => pc \notin InferencePcs

(* C2, amended: every capture follows, in the same iteration, a test that  *)
(* found the paused flag clear, and every transcription follows a capture  *)
(* of that iteration; an iteration whose test finds the flag set sleeps    *)
(* and goes back to the loop test without capture or inference.  A pause() *)
(* that arrives after the test does not interrupt the cycle in progress.   *)
C2_CaptureOnlyAfterClearTest ==
    /\ [][ (pc' = "capture" /\ pc # "capture")
            => (pc = "ifpaused" /\ ~paused) ]_vars
    /\ [][ (Leaves("ifpaused") /\ paused) => pc' = "sleep" ]_vars
    /\ [][ Leaves("sleep") => pc' = "while" ]_vars
    /\ [][ (pc' = "transcribe" /\ pc # "transcribe") => pc = "capture" ]_vars
    /\ [][ (pc' = "transcribe2" /\ pc # "transcribe2")
            => pc = "transcribe" ]_vars

\* The test found the flag set: the worker sleeps
C2_Witness == paused /\ running /\ pc = "sleep"

(* C3: after stop() has cleared the running flag of an active worker, the  *)
(* loop exits, and on exit the sink is closed and "Stopped." has been      *)
(* emitted for this run.                                                   *)
C3_StoppedWorkerExitsCleanly ==
    [][ (threadActive /\ ~running /\ ~threadActive') => Exited' ]_vars

(* C4: a worker whose loop has exited can be started again, and every      *)
(* non-empty utterance of the restarted run is emitted and written to the  *)
(* sink without a fault of the program's own.                              *)
C4_RestartedRunPersists ==
    (runs >= 2 /\ pc = "idle" /\ fault \notin EnvFaults)
        => (fault = "none" /\ EmittedThisRun = WrittenThisRun)

(* C5: a write() that puts its line out rotates if and only if the clock,  *)
(* read at that write, is at least `interval` seconds past t0 (the time of *)
(* construction or of the last rotation); it rotates at most once, and a   *)
(* write() that does not rotate leaves the index, the rotation clock and   *)
(* the open file as they were.                                             *)
C5_RotatesIffIntervalElapsed ==
    [][ WroteLine
        => /\ saver'.idx \in {saver.idx, saver.idx + 1}
           /\ saver'.idx = saver.idx + 1 <=> now - saver.t0 >= saver.interval
           /\ saver'.idx = saver.idx + 1 => saver'.t0 = now
           /\ saver'.idx = saver.idx
                => (saver'.t0 = saver.t0 /\ saver'.fh = saver.fh) ]_vars

\* A write exactly `interval` seconds after construction has rotated
C5_Witness ==
    /\ sinkCall = << "write", "none" >>
    /\ saver.idx = 2
    /\ saver.fh = 2
    /\ saver.t0 = saver.interval
    /\ now = saver.t0
    /\ Len(Lines(saver.out)) = 1

(* C6: a sink never has more than one file handle open, whatever the       *)
(* sequence of construction, write(), rotate() and close(); after close()  *)
(* none is open, and a close() that follows a close(), or that finds no    *)
(* handle, raises nothing and leaves every file closed.                    *)
C6_AtMostOneHandle ==
    /\ [](Cardinality(saver.opened) <= 1)
    /\ [](saver.opened \subseteq {saver.fh})
    /\ [](sinkCall[1] = "close" => saver.opened = {})
    /\ [](sinkCall = << "close", "none" >> => saver.fh = NoHandle)
    /\ [][ (saver.fh = NoHandle /\ sinkCall'[1] = "close")
            => (sinkCall'[2] = "none" /\ saver' = saver) ]_vars
    /\ [][ (sinkCall[1] = "close" /\ sinkCall'[1] = "close"
             /\ sinkCall' # sinkCall)
            => (sinkCall'[2] = "none" /\ saver'.opened = {}) ]_vars

\* close() after a rotation: the second file's handle is closed too
C6_Witness ==
    /\ sinkCall = << "close", "none" >>
    /\ saver.idx >= 2
    /\ saver.opened = {}
    /\ Len(Lines(saver.out)) >= 1

(* C7: within a run of the loop the cycles are sequential: a line is       *)
(* handed to the sink right after it is emitted, the worker goes on from   *)
(* write() only with that line in the file, and whenever it is in a        *)
(* capture or a transcription every line this run has emitted has also     *)
(* been written.                                                           *)
C7_CyclesSequential ==
    /\ [](pc \in InferencePcs => EmittedThisRun = WrittenThisRun)
    /\ [][ Len(emitted') > Len(emitted) => pc' = "write" ]_vars
    /\ [][ (Leaves("write") /\ pc' # "finally")
            => Lines(saver'.out)
                 = Append(Lines(saver.out), emitted[Len(emitted)]) ]_vars

\* The second cycle of a run captures after the first line is out
C7_Witness ==
    /\ pc = "capture"
    /\ EmittedThisRun = 1
    /\ WrittenThisRun = 1

(* C8: an iteration whose final text is empty emits nothing, writes        *)
(* nothing, leaves the sink as it was and goes back to the loop test; no   *)
(* emitted or written line has an empty text.                              *)
C8_SilenceEmitsNothing ==
    /\ [][ ( (Leaves("transcribe") \/ Leaves("transcribe2"))
             /\ pc' \notin {"transcribe2", "finally"} /\ text' = "" )
            => (pc' = "while" /\ emitted' = emitted /\ saver' = saver) ]_vars
    /\ [](\A i \in 1..Len(emitted) : emitted[i].text # "")
    /\ [](\A i \in 1..Len(saver.out) : saver.out[i].text # "")

\* A silent block after one line: the loop is back at its test
C8_Witness ==
    /\ pc = "while"
    /\ text = ""
    /\ ncalls >= 1
    /\ Len(emitted) = 1
    /\ running

(* C9: when translate_to_de raises, the exception does not leave the       *)
(* iteration: the primary line is emitted without a continuation, handed   *)
(* to the sink, and when that write succeeds the line is in the file and   *)
(* the loop goes back to its test.                                         *)
C9_TranslateFaultKeepsLine ==
    /\ [](trFailed => (pc \in {"emit", "write"} /\ tr = ""))
    /\ []((trFailed /\ pc = "write")
            => emitted[Len(emitted)] = Line(lang, text, ""))
    /\ [][ Leaves("translate") => pc' = "emit" ]_vars
    /\ [][ (trFailed /\ Leaves("write") /\ sinkCall'[2] = "none")
            => (pc' = "while"
                /\ Lines(saver'.out)
                     = Append(Lines(saver.out), Line(lang, text, ""))) ]_vars

\* translate_to_de raised for a Polish line, which has been emitted
C9_Witness ==
    /\ trFailed
    /\ pc = "write"
    /\ lang = "pl"
    /\ emitted[Len(emitted)].de = ""

(* C10: a run that an exception of capture, recognition or the sink's      *)
(* write or rotation has ended is over with the sink closed and "Stopped." *)
(* emitted.                                                                *)
C10_FaultedRunExitsCleanly == (pc = "idle" /\ fault # "none") => Exited

\* The texts run() sends through status_text when no call fails, and the
\* empty label before the first of them
RunStatuses == {"", "Loading ASR model", "Listening", "Stopped."}

(* C11: a run that a failure of record_block ends has sent, by the time it *)
(* is over, a status text that describes the fault: the last text before   *)
(* the final one, or the final one, is not one of the texts of a run       *)
(* without faults.                                                         *)
C11_CaptureFaultReported ==
    [][ (fault = "PortAudioError" /\ Leaves("finally_emit"))
         => (status \notin RunStatuses \/ status' \notin RunStatuses) ]_vars

(* C12: a call of transcribe that leaves forced_lang out uses automatic    *)
(* detection: the returned language is the one the backend detected (in    *)
(* lower case, "" when it reported none) and the confidence is the         *)
(* probability the backend reported (0 when it reported none).             *)
C12_OmittedMeansDetection ==
    (asrCall # << >> /\ asrCall[2] = Omitted)
        => /\ asrCall[3].lang
                = Lower(IF asrCall[1].language = None THEN ""
                        ELSE asrCall[1].language)
           /\ asrCall[3].prob
                = (IF asrCall[1].probability = NoProb THEN 0
                   ELSE asrCall[1].probability)

(* C13: the line of a cycle has a "-> DE:" continuation if and only if     *)
(* translation is enabled when the final result is in, the final language  *)
(* is pl or sk, and translate_to_de returned a non-empty string without     *)
(* raising: the translator is called exactly in that case, a cycle that     *)
(* does not call it or whose call raises has no continuation, and the line  *)
(* emitted and the line written are the primary line with exactly what the  *)
(* translator returned.                                                     *)
C13_ContinuationIffTranslated ==
    /\ [][ ( (Leaves("transcribe") \/ Leaves("transcribe2"))
             /\ pc' \in {"translate", "emit"} )
            => /\ pc' = "translate"
                    <=> (translateOn /\ lang' \in TranslateLangs)
               /\ tr' = "" ]_vars
    /\ [][ Leaves("translate")
            => /\ pc' = "emit"
               /\ tr' \in Translations
               /\ trFailed' => tr' = "" ]_vars
    /\ [](pc \in {"emit", "write"} /\ tr # ""
            => lang \in TranslateLangs /\ ~trFailed)
    /\ [][ Len(emitted') > Len(emitted)
            => emitted' = Append(emitted, Line(lang, text, tr)) ]_vars
    /\ [][ WroteLine
            => Lines(saver'.out)
                 = Append(Lines(saver.out), Line(lang, text, tr)) ]_vars
    /\ [](\A i \in 1..Len(emitted) :
            emitted[i].de # "" => emitted[i].lang \in {"PL", "SK"})

\* A Polish line with its translation has been emitted and written
C13_Witness ==
    /\ pc = "while"
    /\ emitted # << >>
    /\ emitted[Len(emitted)] = Line("pl", "hi", "hallo")
    /\ Lines(saver.out) # << >>
    /\ Lines(saver.out)[Len(Lines(saver.out))] = Line("pl", "hi", "hallo")

\* The last element of a non-empty sequence
Last(q) == q[Len(q)]

\* This step constructs a sink
Constructs == sinkCall'[1] = "__init__"

(* C14: the rotation index of a sink is 1 at construction; no call lowers  *)
(* it, a call raises it by at most 1, and a rotation that opens its new    *)
(* file has raised it by exactly 1.  When a write() rotates, the line it   *)
(* wrote is the last content of the file it leaves, the handle of that     *)
(* file is closed, and from then on the sink changes no file of a lower    *)
(* index than the one it has open: each call changes at most the file open *)
(* before it and the file open after it.                                   *)
C14_IndexAndRotationOrder ==
    /\ [](sinkCall[1] = "__init__" => saver.idx = 1)
    /\ [][ ~Constructs => saver'.idx \in {saver.idx, saver.idx + 1} ]_vars
    /\ [][ (~Constructs /\ saver'.path # saver.path)
            => (saver'.idx = saver.idx + 1 /\ saver'.path.idx = saver'.idx)
         ]_vars
    /\ [][ (WroteLine /\ saver'.idx = saver.idx + 1)
            => /\ Len(saver'.files[saver.path]) > Len(saver.files[saver.path])
               /\ Last(saver'.files[saver.path]) = Last(Lines(saver'.out))
               /\ saver.fh \notin saver'.opened ]_vars
    /\ [][ \A p \in DOMAIN saver.files :
              saver'.files[p] # saver.files[p]
                 => p \in {saver.path, saver'.path} ]_vars
    /\ [][ ~Constructs
            => \A p \in DOMAIN saver.files :
                  (p.dir = saver.session_dir /\ p.idx < saver.path.idx)
                     => saver'.files[p] = saver.files[p] ]_vars

\* A write() has rotated: its line ends the first file, the second file
\* holds its header only
C14_Witness ==
    /\ sinkCall = << "write", "none" >>
    /\ saver.idx = 2
    /\ saver.path.idx = 2
    /\ saver.files[saver.path] = << Header >>
    /\ \E p \in DOMAIN saver.files :
          /\ p.idx = 1
          /\ Len(saver.files[p]) = 2
          /\ Last(saver.files[p]) = Last(Lines(saver.out))

(* C15: every file the sink opens, at construction or at a rotation, is    *)
(* created in the directory named by the calendar date at the time the     *)
(* file is opened.                                                         *)
C15_FileInDirectoryOfItsDay ==
    [][ (Constructs \/ saver'.path # saver.path)
         => saver'.path.dir = Date(now) ]_vars

(* C16: whatever start_run(), pause(), resume() and stop_run() calls are   *)
(* made, the worker is never paused while stopped: the paused flag is      *)
(* never set while the running flag is clear.                              *)
C16_NeverPausedWhileStopped == ~(paused /\ ~running)

(* C17: a file that holds transcript lines is never truncated or           *)
(* overwritten: whatever is opened later, by a rotation or by the sink of  *)
(* a later session under the same root, the file keeps what it held.       *)
C17_WrittenLinesAreKept ==
    [][ \A p \in DOMAIN saver.files :
           Lines(saver.files[p]) # << >>
              => /\ Len(saver'.files[p]) >= Len(saver.files[p])
                 /\ SubSeq(saver'.files[p], 1, Len(saver.files[p]))
                      = saver.files[p] ]_vars

\* Worker loops alive: the thread of the current worker and the threads of
\* workers the window has replaced
ActiveLoops == orphans + (IF threadActive THEN 1 ELSE 0)

(* C18: whatever Start, Pause and Stop clicks are made, a Stop whose wait   *)
(* is over while the worker is still in its cycle included, at most one    *)
(* worker loop is alive; a new worker and its sink are created, and a run   *)
(* is begun, only when no worker thread is running.                         *)
C18_AtMostOneWorkerLoop ==
    /\ [](ActiveLoops <= 1)
    /\ [](orphans = 0)
    /\ [][ runs' > runs => (~threadActive /\ threadActive') ]_vars
    /\ [][ (Constructs /\ (sinkCall' # sinkCall \/ saver' # saver))
            => ~threadActive ]_vars
    /\ [][ (threadActive /\ win.btn_start /\ win' # win)
            => (win'.worker = win.worker /\ runs' = runs) ]_vars

\* Stop has returned while the worker is still inside capture or
\* recognition, and Start can be clicked again
C18_Witness ==
    /\ win.worker
    /\ win.btn_start
    /\ ~running
    /\ threadActive
    /\ pc \in InferencePcs
    /\ runs = 1

\* The lines the current run has emitted, and has got into the files
RunEmitted == SubSeq(emitted, runBase[1] + 1, Len(emitted))

RunWritten ==
    SubSeq(Lines(saver.out), runBase[2] + 1, Len(Lines(saver.out)))

\* Exceptions of a failing saver.write(line)
WriteFaults == {"OSError", "AttributeError", "ValueError"}

====
